---- MODULE Spec2Model ----
(***************************************************************************)
(* A model of the dialect-extension layer of remorph's snow package:       *)
(*   snowflake.py  - Snow.Tokenizer (keyword table, keyword trie) and      *)
(*                   Snow.Parser (function builders, colon path operator)  *)
(*   presto.py     - the approximate-percentile builder                    *)
(*   databricks.py - the Databricks generator's render functions           *)
(*                                                                         *)
(* Text is a sequence of one-character strings, so that Python's           *)
(* str.replace, `in`, re.search and f-strings are modelled on characters.  *)
(* The render functions and builders are pure: specification Spec applies  *)
(* them to inputs drawn from bounded sets and records each call in `call`. *)
(* The tokenizer mutates class-level state: specification SpecTok runs     *)
(* sequences of tokenize calls against KEYWORDS and KEYWORD_TRIE.          *)
(***************************************************************************)
EXTENDS Integers, Sequences, FiniteSets, TLC

VARIABLES
    call,          \* the last call of a pure function: [op, arg, out]
    KEYWORDS,      \* Snow.Tokenizer.KEYWORDS (class attribute)
    KEYWORD_TRIE,  \* Snow.Tokenizer.KEYWORD_TRIE (class attribute)
    tok,           \* the tokenizer instance: sql, size, _current, outcome
    hist           \* the keywords discovered by each tokenize call so far

vars == <<call, KEYWORDS, KEYWORD_TRIE, tok, hist>>

(***************************************************************************)
(* Text                                                                    *)
(***************************************************************************)
Empty == <<>>

S_MERGE == <<"M","E","R","G","E">>
S_DELETE == <<"D","E","L","E","T","E">>
S_WHERE == <<"W","H","E","R","E">>
S_ON == <<"O","N">>
S_FROM_ == <<"F","R","O","M"," ">>
S_USING_ == <<" ","U","S","I","N","G"," ">>
S_WHEN_MATCHED == <<" ","W","H","E","N"," ","M","A","T","C","H","E","D"," ",
                    "T","H","E","N"," ","D","E","L","E","T","E",";">>
S_WHEN_MATCHED_THEN_DELETE == <<"W","H","E","N"," ","M","A","T","C","H","E","D"," ",
                                "T","H","E","N"," ","D","E","L","E","T","E">>

\* Python's `pat in s`.
Contains(s, pat) ==
    \E i \in 1..(Len(s) - Len(pat) + 1) : SubSeq(s, i, i + Len(pat) - 1) = pat

\* Python's s.startswith(pat).
StartsWith(s, pat) ==
    Len(s) >= Len(pat) /\ SubSeq(s, 1, Len(pat)) = pat

\* Python's s.endswith(pat).
EndsWith(s, pat) ==
    Len(s) >= Len(pat) /\ SubSeq(s, Len(s) - Len(pat) + 1, Len(s)) = pat

\* Python's s.replace(old, new): every non-overlapping occurrence, left to right.
RECURSIVE Replace(_, _, _)
Replace(s, old, new) ==
    IF Len(s) < Len(old) THEN s
    ELSE IF SubSeq(s, 1, Len(old)) = old
         THEN new \o Replace(SubSeq(s, Len(old) + 1, Len(s)), old, new)
         ELSE <<s[1]>> \o Replace(Tail(s), old, new)

(***************************************************************************)
(* databricks.py: Databricks.Generator.delete_sql                          *)
(*                                                                         *)
(* A Delete node is given by the text self.sql / self.expressions renders  *)
(* for each of its clauses ("" when the clause is absent), as delete_sql   *)
(* reads them.                                                             *)
(***************************************************************************)
T_t == <<"t">>
T_s == <<"s">>
T_MERGE_LOG == S_MERGE \o <<"_","L","O","G">>
T_with == <<"W","I","T","H"," ","c"," ","A","S"," ","(","S","E","L","E","C","T"," ","1",")">>
T_returning == <<" ","R","E","T","U","R","N","I","N","G"," ","x">>
T_limit == <<" ","L","I","M","I","T"," ","1">>
T_where_join == <<" ">> \o S_WHERE \o <<" ","t",".","i","d"," ","="," ","s",".","i","d">>
\* a condition holding the text WHERE in an identifier
T_where_ident == <<" ">> \o S_WHERE \o <<" ","t",".">> \o S_WHERE \o <<"_","I","D"," ","="," ","1">>
\* a condition holding the text WHERE in a nested subquery
T_where_nested == <<" ">> \o S_WHERE \o <<" ","x"," ","I","N"," ","(","S","E","L","E","C","T"," ","y"," ">>
                  \o S_FROM_ \o <<"u"," ">> \o S_WHERE \o <<" ","z",")">>
\* a condition holding the text MERGE in a string literal
T_where_lit == <<" ">> \o S_WHERE \o <<" ","a"," ","="," ","'">> \o S_MERGE \o <<"'">>

ThisTexts == {T_t, T_MERGE_LOG}
UsingTexts == {Empty, T_s}
WhereTexts == {Empty, T_where_join, T_where_ident, T_where_nested, T_where_lit}
ReturningTexts == {Empty, T_returning}
LimitTexts == {Empty, T_limit}
TablesTexts == {Empty, T_t}
WithTexts == {Empty, T_with}

\* Generator.RETURNING_END: the Databricks generator inherits the base generator's
\* setting, under which line 300 assembles the statement.
RETURNING_END_Values == {TRUE}

DeleteNodes ==
    [this : ThisTexts, using : UsingTexts, where : WhereTexts, returning : ReturningTexts,
     limit : LimitTexts, tables : TablesTexts, with : WithTexts]

\* sqlglot Generator.prepend_ctes as delete_sql uses it: "<with> <sql>" when the
\* node carries a WITH clause.
prepend_ctes(e, sql) ==
    IF e.with # Empty THEN e.with \o <<" ">> \o sql ELSE sql

\* The USING branch of delete_sql (line 295): where.replace("WHERE", "ON").
delete_where(using, where) ==
    IF using # Empty THEN Replace(where, S_WHERE, S_ON) ELSE where

\* variant of delete_is_merge with the branch test negated
delete_is_merge_inverted(using) == using = Empty

\* The final test of delete_sql (line 304): `if using:` on the rewritten USING text.
delete_is_merge(using) == using # Empty

delete_sql(e, RETURNING_END) ==
    LET this == e.this
        using == e.using
        where == e.where
        returning == e.returning
        limit == e.limit
        tables == IF e.tables # Empty THEN <<" ">> \o e.tables ELSE Empty
        using1 == IF using # Empty THEN S_USING_ \o using ELSE using
        where1 == delete_where(using, where)
        this1 == IF using # Empty THEN this
                 ELSE IF this # Empty THEN S_FROM_ \o this ELSE Empty
        expression_sql ==
            IF RETURNING_END
            THEN <<" ">> \o this1 \o using1 \o where1 \o returning \o limit
            ELSE returning \o this1 \o where1 \o limit
    IN  IF delete_is_merge(using1)
        THEN prepend_ctes(e, S_MERGE \o tables \o expression_sql \o S_WHEN_MATCHED)
        ELSE prepend_ctes(e, S_DELETE \o tables \o expression_sql)

(***************************************************************************)
(* Expression nodes.  A node is a record with its class in `type`; an      *)
(* absent argument is None.                                                *)
(***************************************************************************)
None == [type |-> "None"]

\* a Python str held in an argument slot
Str(text) == [type |-> "str", text |-> text]

Identifier(text) == [type |-> "Identifier", text |-> text]

\* exp.Literal: `this` is the literal's text, a str
Literal(text, is_string) == [type |-> "Literal", this |-> Str(text), is_string |-> is_string]

\* exp.Column: `this` is the column's Identifier, `table` the qualifier's name ("" if none)
Column(name, table) == [type |-> "Column", this |-> Identifier(name), table |-> table]

\* sqlglot.helper.seq_get: the item at a 0-based index, None when out of range.
seq_get(args, i) == IF i + 1 \in 1..Len(args) THEN args[i + 1] ELSE None

\* Generator.sql(node): number literals render as their text, string literals
\* quoted, columns as [table.]name, an absent node as "".
sql(node) ==
    CASE node.type = "None" -> Empty
      [] node.type = "Literal" ->
            IF node.is_string THEN <<"'">> \o node.this.text \o <<"'">> ELSE node.this.text
      [] node.type = "Column" ->
            IF node.table # Empty THEN node.table \o <<".">> \o node.this.text
            ELSE node.this.text

\* ", ".join(texts)
RECURSIVE join_csv(_)
join_csv(texts) ==
    IF Len(texts) = 0 THEN Empty
    ELSE IF Len(texts) = 1 THEN texts[1]
    ELSE texts[1] \o <<",", " ">> \o join_csv(Tail(texts))

RECURSIVE sql_present(_)
sql_present(nodes) ==
    IF Len(nodes) = 0 THEN <<>>
    ELSE IF nodes[1].type = "None" THEN sql_present(Tail(nodes))
    ELSE <<sql(nodes[1])>> \o sql_present(Tail(nodes))

\* Generator.func(name, *args): NAME(arg, ...) over the arguments that are not None.
func(name, nodes) == name \o <<"(">> \o join_csv(sql_present(nodes)) \o <<")">>

DigitChar == <<"0","1","2","3","4","5","6","7","8","9">>

\* str(n) / f"{n}" of a non-negative int.
RECURSIVE IntToText(_)
IntToText(n) ==
    IF n < 10 THEN <<DigitChar[n + 1]>>
    ELSE IntToText(n \div 10) \o <<DigitChar[(n % 10) + 1]>>

(***************************************************************************)
(* snowflake.py: _parse_trytonumber                                        *)
(***************************************************************************)
MaxArgs == 5

L_value == Literal(<<"1",".","5">>, TRUE)
L_format == Literal(<<"9",".","9">>, TRUE)
L_3 == Literal(<<"3">>, FALSE)
L_1 == Literal(<<"1">>, FALSE)
L_0 == Literal(<<"0">>, FALSE)
C_x == Column(<<"x">>, Empty)

TryToNumberArgValues == {L_value, L_3}

TryToNumberArgLists ==
    UNION {[1..n -> TryToNumberArgValues] : n \in 0..MaxArgs}

ParseError(about) == [type |-> "ParseError", about |-> about]

TryToNumber(this, expression, precision, scale) ==
    [type |-> "TryToNumber", this |-> this, expression |-> expression,
     precision |-> precision, scale |-> scale]

_parse_trytonumber(args) ==
    IF Len(args) = 1 \/ Len(args) = 3
    THEN ParseError(args)
    ELSE IF Len(args) = 4
    THEN TryToNumber(seq_get(args, 0), seq_get(args, 1), seq_get(args, 2), seq_get(args, 3))
    ELSE TryToNumber(seq_get(args, 0), seq_get(args, 1), None, None)

(***************************************************************************)
(* databricks.py: try_to_number                                            *)
(***************************************************************************)
S_TRY_TO_NUMBER == <<"T","R","Y","_","T","O","_","N","U","M","B","E","R">>
S_CAST_ == <<"C","A","S","T","(">>
S_AS_DECIMAL_ == <<" ","A","S"," ","D","E","C","I","M","A","L","(">>

DEFAULT_PRECISION == 38
DEFAULT_SCALE == 0

TryToNumberNodes ==
    {TryToNumber(v, f, p, s) :
        v \in {L_value, C_x}, f \in {None, L_format},
        p \in {None, L_3, L_0}, s \in {None, L_1, L_0}}

try_to_number_with(expression, default_precision, default_scale) ==
    LET precision0 == sql(expression.precision)
        scale0 == sql(expression.scale)
        precision == IF precision0 = Empty THEN IntToText(default_precision) ELSE precision0
        scale == IF scale0 = Empty THEN IntToText(default_scale) ELSE scale0
        func_expr == IF expression.expression.type # "None"
                     THEN func(S_TRY_TO_NUMBER, <<expression.this, expression.expression>>)
                     ELSE func(S_TRY_TO_NUMBER, <<expression.this>>)
    IN  S_CAST_ \o func_expr \o S_AS_DECIMAL_ \o precision \o <<",", " ">> \o scale \o <<")", ")">>

\* variant of try_to_number with another default precision
try_to_number_wrong_default(expression) ==
    try_to_number_with(expression, 18, DEFAULT_SCALE)

try_to_number(expression) ==
    try_to_number_with(expression, DEFAULT_PRECISION, DEFAULT_SCALE)

(***************************************************************************)
(* presto.py: _build_approx_percentile                                     *)
(*                                                                         *)
(* A float is held in thousandths (0.01 is 10); the accuracy texts drawn   *)
(* below have at most three decimals, for which int((1/number) * 100) in   *)
(* binary floating point equals 100000 \div thousandths.                   *)
(***************************************************************************)
IsDigit(c) == \E i \in 1..10 : DigitChar[i] = c

DigitValue(c) == (CHOOSE i \in 1..10 : DigitChar[i] = c) - 1

RECURSIVE DigitsToInt(_)
DigitsToInt(s) ==
    IF Len(s) = 0 THEN 0
    ELSE DigitsToInt(SubSeq(s, 1, Len(s) - 1)) * 10 + DigitValue(s[Len(s)])

\* Python's float(x) on the `this` of a node: a str is parsed as a decimal
\* (ValueError when it is not one), anything else is a TypeError.
float(this) ==
    IF this.type # "str" THEN [ok |-> FALSE, err |-> "TypeError"]
    ELSE
        LET t == this.text
            dots == {i \in 1..Len(t) : t[i] = "."}
            wellformed == /\ \A i \in 1..Len(t) : IsDigit(t[i]) \/ t[i] = "."
                          /\ Cardinality(dots) <= 1
                          /\ \E i \in 1..Len(t) : IsDigit(t[i])
            dot == IF dots = {} THEN Len(t) + 1 ELSE CHOOSE i \in dots : TRUE
            whole == SubSeq(t, 1, dot - 1)
            frac == SubSeq(t, dot + 1, Len(t))
            frac3 == SubSeq(frac \o <<"0","0","0">>, 1, 3)
        IN  IF wellformed /\ Len(frac) <= 3
            THEN [ok |-> TRUE, milli |-> DigitsToInt(whole) * 1000 + DigitsToInt(frac3)]
            ELSE [ok |-> FALSE, err |-> "ValueError"]

\* int((1/number) * 100) for number > 0 in thousandths
accuracy_of(milli) == 100000 \div milli

A_001 == Literal(<<"0",".","0","1">>, FALSE)
A_005 == Literal(<<"0",".","0","5">>, FALSE)
A_05 == Literal(<<"0",".","5">>, FALSE)
A_zero == Literal(<<"0">>, FALSE)
A_str005 == Literal(<<"0",".","0","5">>, TRUE)
A_abc == Literal(<<"a","b","c">>, TRUE)
C_acc == Column(<<"a","c","c">>, <<"t">>)
C_w == Column(<<"w">>, Empty)

AccuracyArgs == {A_001, A_005, A_05, A_zero, A_str005, A_abc, C_acc}

ApproxPercentileArgLists ==
    {<<C_x, A_05, a>> : a \in AccuracyArgs}
    \cup {<<C_x, C_w, A_05, a>> : a \in AccuracyArgs}
    \cup {<<>>, <<C_x>>, <<C_x, A_05>>, <<C_x, C_w, A_05, A_001, A_001>>}

ApproxQuantile(this, weight, quantile, accuracy) ==
    [type |-> "ApproxQuantile", this |-> this, weight |-> weight,
     quantile |-> quantile, accuracy |-> accuracy]

Raised(error) == [type |-> error]

\* One arity branch of the builder (lines 13-23 and 25-34): `suffix` is what the
\* f-string of the branch puts after the number.
approx_branch(arg, this, weight, quantile, suffix) ==
    LET number == float(arg.this)
    IN  IF ~number.ok
        THEN IF number.err = "ValueError" THEN ParseError(arg) ELSE Raised(number.err)
        ELSE IF number.milli = 0
        THEN Raised("ZeroDivisionError")
        ELSE ApproxQuantile(this, weight, quantile,
                            Literal(IntToText(accuracy_of(number.milli)) \o suffix, FALSE))

_build_approx_percentile(args) ==
    IF Len(args) = 4
    THEN approx_branch(seq_get(args, 3), seq_get(args, 0), seq_get(args, 1),
                       seq_get(args, 2), <<" ">>)
    ELSE IF Len(args) = 3
    THEN approx_branch(seq_get(args, 2), seq_get(args, 0), None, seq_get(args, 1), Empty)
    \* exp.ApproxQuantile.from_arg_list: positional this, quantile, accuracy, weight
    ELSE ApproxQuantile(seq_get(args, 0), seq_get(args, 3), seq_get(args, 1),
                        seq_get(args, 2))

(***************************************************************************)
(* snowflake.py: Snow.Parser._get_table_alias and _json_column_op          *)
(*                                                                         *)
(* The parser is its token list and cursor: _curr is the token at _index,  *)
(* None past the end.  A Python str held where a node may be held is       *)
(* wrapped as Str(text).                                                   *)
(***************************************************************************)
Token(token_type, text) == [token_type |-> token_type, text |-> text]

TK_FROM == Token("FROM", <<"F","R","O","M">>)
TK_t == Token("VAR", <<"t">>)
TK_u == Token("VAR", <<"u">>)
TK_DOT == Token("DOT", <<".">>)

LowerChar == <<"a","b","c","d","e","f","g","h","i","j","k","l","m",
               "n","o","p","q","r","s","t","u","v","w","x","y","z">>
UpperChar == <<"A","B","C","D","E","F","G","H","I","J","K","L","M",
               "N","O","P","Q","R","S","T","U","V","W","X","Y","Z">>

\* Python's str.upper()
upper(text) ==
    [i \in 1..Len(text) |->
        IF \E k \in 1..26 : LowerChar[k] = text[i]
        THEN UpperChar[CHOOSE k \in 1..26 : LowerChar[k] = text[i]]
        ELSE text[i]]

\* the Token at a cursor as a node-like record (None past the end)
_curr(tokens, idx) ==
    IF idx + 1 \in 1..Len(tokens)
    THEN [type |-> "Token", token_type |-> tokens[idx + 1].token_type,
          text |-> tokens[idx + 1].text]
    ELSE None

\* Parser._match(token_type, advance=False) on the cursor at 0-based index idx
_match(tokens, idx, token_type) ==
    _curr(tokens, idx).type # "None" /\ _curr(tokens, idx).token_type = token_type

\* lines 220-226: the alias read once FROM is found at the cursor idx
alias_after_from(tokens, idx) ==
    LET c1 == _curr(tokens, idx + 2)
        c2 == _curr(tokens, idx + 4)
    IN  IF c1.type = "None" THEN Raised("AttributeError")
        ELSE IF c1.text # <<".">> THEN Str(c1.text)
        ELSE IF c2.type = "None" THEN Raised("AttributeError")
        ELSE Str(c2.text)

\* the while loop of lines 214-226 from one iteration on
RECURSIVE alias_loop(_, _, _, _, _)
alias_loop(tokens, idx, indx, run, found_from) ==
    IF ~(run \/ found_from) THEN None
    ELSE
        LET idx1 == idx + 1
            indx1 == indx + 1
            found1 == _match(tokens, idx1, "FROM")
            run1 == IF indx1 = Len(tokens) THEN FALSE ELSE run
        IN  IF found1 THEN alias_after_from(tokens, idx1)
            ELSE alias_loop(tokens, idx1, indx1, run1, found1)

\* _get_table_alias on a parser with a non-empty token list: Str(alias), None,
\* or the AttributeError of reading .text past the end.
_get_table_alias(parser) ==
    alias_loop(parser.tokens, parser.index, 0, TRUE,
               _match(parser.tokens, parser.index, "FROM"))

S_VALUE == <<"V","A","L","U","E">>
N_value == <<"v","a","l","u","e">>

Var(text) == [type |-> "Var", this |-> Str(text)]

ExpBracket(this, path) == [type |-> "exp.Bracket", this |-> this, expressions |-> <<path>>]

LocalBracket(this, path) == [type |-> "local.Bracket", this |-> this, expressions |-> <<path>>]

\* Expression.text("this"): a str, or the `this` of an Identifier, Literal or Var
\* argument, else ""
text_this(node) ==
    IF node.this.type \in {"str", "Identifier"} THEN node.this.text
    ELSE IF node.this.type \in {"Literal", "Var"} THEN node.this.this.text
    ELSE Empty

\* Expression.name
name(node) == text_this(node)

\* isinstance(node, exp.Bracket): the generic bracket and the path node
isinstance_exp_Bracket(node) == node.type \in {"exp.Bracket", "local.Bracket"}

\* isinstance(node, local_expression.Bracket): the path node
isinstance_local_Bracket(node) == node.type = "local.Bracket"

\* only a Column has the attribute `table`
has_table(node) == node.type = "Column"

_json_column_op(parser, this, path) ==
    LET table_alias == _get_table_alias(parser)
    IN  IF table_alias.type = "AttributeError" THEN table_alias
        ELSE IF ~isinstance_exp_Bracket(this) /\ upper(name(this)) = S_VALUE
        THEN IF Str(this.table) # table_alias
             THEN LocalBracket(Str(this.table), path)
             ELSE LocalBracket(this, path)
        ELSE IF path.type = "Literal" /\ upper(name(path)) = S_VALUE
        THEN LocalBracket(this, path)
        ELSE IF ~isinstance_local_Bracket(this)
        THEN ExpBracket(this, path)
        ELSE IF upper(name(this)) = S_VALUE
        THEN LocalBracket(this, path)
        \* this.this.table.upper() == table_alias.upper(), read left to right
        ELSE IF ~has_table(this.this) \/ table_alias.type = "None"
        THEN Raised("AttributeError")
        ELSE IF upper(this.this.table) = upper(table_alias.text)
        THEN LocalBracket(this, path)
        ELSE ExpBracket(this, path)

P_a == Literal(<<"a">>, TRUE)
P_value == Literal(N_value, TRUE)
P_b == Var(<<"b">>)

JsonPaths == {P_a, P_value, P_b}

JsonBases ==
    { Column(N_value, <<"t">>), Column(S_VALUE, <<"u">>), Column(N_value, Empty),
      Column(<<"x">>, <<"t">>),
      ExpBracket(Column(<<"x">>, <<"t">>), L_0),
      LocalBracket(Str(<<"u">>), P_a),
      LocalBracket(Str(N_value), P_a),
      LocalBracket(Column(N_value, <<"t">>), P_a),
      LocalBracket(Column(<<"x">>, <<"T">>), P_a),
      LocalBracket(Column(<<"x">>, <<"u">>), P_a) }

Parser(tokens, index) == [tokens |-> tokens, index |-> index]

\* cursors on: no FROM ahead; FROM <table> <alias>; FROM <schema>.<table> <alias>;
\* FROM at the cursor itself; FROM followed by <table> only
JsonParsers ==
    { Parser(<<TK_t, TK_t>>, 0),
      Parser(<<TK_t, TK_FROM, TK_u, TK_t>>, 0),
      Parser(<<TK_t, TK_FROM, TK_t, TK_u>>, 0),
      Parser(<<TK_t, TK_FROM, TK_u, TK_DOT, TK_u, TK_t>>, 0),
      Parser(<<TK_FROM, TK_u, TK_t>>, 0),
      Parser(<<TK_t, TK_FROM, TK_u>>, 0) }

(***************************************************************************)
(* databricks.py: VALID_DATABRICKS_TYPES and _columndef_sql                *)
(***************************************************************************)
K_DECIMAL == <<"D","E","C","I","M","A","L">>
K_INT == <<"I","N","T">>
K_STRING == <<"S","T","R","I","N","G">>
K_TIMESTAMP == <<"T","I","M","E","S","T","A","M","P">>
K_MAP == <<"M","A","P">>

VALID_DATABRICKS_TYPES ==
    { <<"B","I","G","I","N","T">>,
      <<"B","I","N","A","R","Y">>,
      <<"B","O","O","L","E","A","N">>,
      <<"D","A","T","E">>,
      K_DECIMAL,
      <<"D","O","U","B","L","E">>,
      <<"F","L","O","A","T">>,
      K_INT,
      <<"I","N","T","E","R","V","A","L">>,
      <<"V","O","I","D">>,
      <<"S","M","A","L","L","I","N","T">>,
      K_STRING,
      K_TIMESTAMP,
      <<"T","I","N","Y","I","N","T">>,
      <<"A","R","R","A","Y">>,
      K_MAP,
      <<"S","T","R","U","C","T">> }

IsAlpha(c) == \E k \in 1..26 : LowerChar[k] = c \/ UpperChar[k] = c

\* re.search("^([A-Za-z]+)", kind): the leading alphabetic run, "" when the
\* pattern does not match
RECURSIVE leading_alpha(_)
leading_alpha(kind) ==
    IF Len(kind) = 0 \/ ~IsAlpha(kind[1]) THEN Empty
    ELSE <<kind[1]>> \o leading_alpha(Tail(kind))

Constraint(type, text) == [type |-> type, text |-> text]

CT_comment == Constraint("CommentColumnConstraint",
                         <<"C","O","M","M","E","N","T"," ","'","c","'">>)
CT_notnull == Constraint("NotNullColumnConstraint", <<"N","O","T"," ","N","U","L","L">>)

\* lines 129-134: keep the comment constraints
RECURSIVE filter_comment(_)
filter_comment(constraints) ==
    IF Len(constraints) = 0 THEN <<>>
    ELSE IF constraints[1].type = "CommentColumnConstraint"
    THEN <<constraints[1]>> \o filter_comment(Tail(constraints))
    ELSE filter_comment(Tail(constraints))

\* self.expressions(expression, key="constraints", sep=" ", flat=True)
RECURSIVE join_space(_)
join_space(constraints) ==
    IF Len(constraints) = 0 THEN Empty
    ELSE IF Len(constraints) = 1 THEN constraints[1].text
    ELSE constraints[1].text \o <<" ">> \o join_space(Tail(constraints))

ColumnDef(column, kind, constraints) ==
    [column |-> column, kind |-> kind, constraints |-> constraints]

\* rendered types: allowed ones, one with parameters, one with a suffix after the
\* alphabetic run, unknown ones, lower case, none at all, one that starts
\* with an underscore
KindTexts ==
    { K_INT, K_STRING, K_MAP,
      K_DECIMAL \o <<"(","1","9",","," ","4",")">>,
      K_TIMESTAMP \o <<"_","L","T","Z">>,
      <<"F","O","O","B","A","R">>, <<"I","N","T","E","G","E","R">>,
      <<"i","n","t">>, Empty, <<"_","g","e","o">> }

ColumnDefs ==
    {ColumnDef(<<"a">>, k, c) :
        k \in KindTexts,
        c \in {<<>>, <<CT_notnull>>, <<CT_comment>>, <<CT_notnull, CT_comment>>}}

Rendered(text) == [type |-> "text", text |-> text]

UnsupportedError(kind_str) == [type |-> "UnsupportedError", kind_str |-> kind_str]

_columndef_sql(expression) ==
    LET column == expression.column
        kind == expression.kind
        constraints == join_space(filter_comment(expression.constraints))
        kind_str == leading_alpha(kind)
    IN  IF kind_str = Empty THEN Raised("AttributeError")
        ELSE IF kind_str \notin VALID_DATABRICKS_TYPES THEN UnsupportedError(kind_str)
        ELSE IF constraints = Empty THEN Rendered(column \o <<" ">> \o kind)
        ELSE Rendered(column \o <<" ">> \o kind \o <<" ">> \o constraints)

(***************************************************************************)
(* databricks.py: _format_create_sql                                       *)
(*                                                                         *)
(* A Create node is its args: each modifier is "absent" (no such key),     *)
(* "falsy" (a key holding None, False or an empty list) or "truthy".       *)
(***************************************************************************)
args_to_delete ==
    <<"temporary", "transient", "external", "replace", "exists", "unique",
      "materialized", "properties">>

\* variant of args_to_delete without "exists"
args_to_delete_short ==
    <<"temporary", "transient", "external", "replace", "unique",
      "materialized", "properties">>

ArgStates == {"absent", "falsy", "truthy"}

CreateNodes ==
    [temporary : ArgStates, transient : ArgStates, external : ArgStates,
     replace : ArgStates, exists : ArgStates, unique : ArgStates,
     materialized : ArgStates, properties : ArgStates,
     kind : {"TABLE"}, this : {"t"}]

\* lines 59-61 for one argument: del expression.args[arg] if args.get(arg)
RECURSIVE strip_args(_, _)
strip_args(node, names) ==
    IF Len(names) = 0 THEN node
    ELSE strip_args(IF node[names[1]] = "truthy"
                    THEN [node EXCEPT ![names[1]] = "absent"] ELSE node,
                    Tail(names))

\* variant of _format_create_sql that leaves "exists" set
_format_create_sql_short(expression) == strip_args(expression, args_to_delete_short)

\* the node _format_create_sql hands to the base CREATE renderer
_format_create_sql(expression) == strip_args(expression, args_to_delete)

(***************************************************************************)
(* snowflake.py: Snow.Tokenizer.merge_trie                                 *)
(*                                                                         *)
(* A trie is a Python dict: a function from keys to values.  A value is    *)
(* tagged: Dict(kids) is a nested dict, Leaf(val) any other value.  The    *)
(* int key 0 of sqlglot's tries is the key END.                            *)
(***************************************************************************)
EmptyTrie == [k \in {} |-> 0]

Leaf(val) == [dict |-> FALSE, kids |-> EmptyTrie, val |-> val]

Dict(kids) == [dict |-> TRUE, kids |-> kids, val |-> "dict"]

END == "0:int"

\* variant of merge_trie in which the parent value wins every collision
merge_trie_parent_first(parent_trie, new_trie) ==
    [key \in DOMAIN parent_trie \cup DOMAIN new_trie |->
        IF key \in DOMAIN parent_trie THEN parent_trie[key] ELSE new_trie[key]]

RECURSIVE merge_trie(_, _)
merge_trie(parent_trie, new_trie) ==
    [key \in DOMAIN parent_trie \cup DOMAIN new_trie |->
        IF key \in DOMAIN parent_trie /\ key \in DOMAIN new_trie
        THEN IF parent_trie[key].dict /\ new_trie[key].dict
             THEN Dict(merge_trie(parent_trie[key].kids, new_trie[key].kids))
             ELSE IF parent_trie[key].dict
             THEN parent_trie[key]
             ELSE new_trie[key]
        ELSE IF key \in DOMAIN parent_trie
        THEN parent_trie[key]
        ELSE new_trie[key]]

\* the dicts over `keys` with values in `values`
TriesOver(keys, values) == UNION {[d -> values] : d \in SUBSET keys}

Leaves == {Leaf("T1"), Leaf("T2")}

TrieValues == Leaves \cup {Dict(t) : t \in TriesOver({"a"}, Leaves)}

\* tries of two levels: terminals and nested dicts under the keys a and b
Tries == TriesOver({"a", "b"}, TrieValues)

(***************************************************************************)
(* snowflake.py: Snow.Tokenizer                                            *)
(*                                                                         *)
(* A statement is a sequence of segments; its text is their concatenation. *)
(* A segment carries the CUSTOM_TOKEN_MAP pattern that matches it ("none"  *)
(* for text no pattern matches): re.finditer yields, per pattern, the      *)
(* segments of that pattern in order.                                      *)
(***************************************************************************)
CUSTOM_TOKEN_MAP ==
    << [pattern |-> "PROCEDURE", token_type |-> "PROCEDURE"],
       [pattern |-> "VAR", token_type |-> "VAR"] >>

Segment(text, pattern) == [text |-> text, pattern |-> pattern]

G_select == Segment(<<"S","E","L","E","C","T"," ","1"," ">>, "none")
G_proc == Segment(<<"c","r","e","a","t","e"," ","o","r"," ","r","e","p","l","a","c","e"," ","p","r","o","c","e","d","u","r","e">>, "PROCEDURE")
G_PROC == Segment(<<"C","R","E","A","T","E"," ","O","R"," ","R","E","P","L","A","C","E"," ","P","R","O","C","E","D","U","R","E">>, "PROCEDURE")
G_body == Segment(<<" ","p","(",")"," ">>, "none")
G_var_x == Segment(<<"v","a","r"," ","x"," ","="," ","1">>, "VAR")
G_var_y == Segment(<<"V","A","R"," ","y"," ","="," ","2">>, "VAR")
G_sep == Segment(<<";"," ">>, "none")

LongLen == 120

\* a statement longer than the two halves of the error window: a,a,a,...
G_long == Segment([i \in 1..LongLen |-> IF i % 2 = 1 THEN "a" ELSE ","], "none")

Statements ==
    { <<G_select>>,
      <<G_long>>,
      <<G_proc, G_body>>,
      <<G_PROC, G_body, G_var_x>>,
      <<G_var_x, G_sep, G_var_y>>,
      <<G_var_y, G_sep, G_var_y>> }

\* the text of a statement
RECURSIVE sql_text(_)
sql_text(stmt) ==
    IF Len(stmt) = 0 THEN Empty ELSE stmt[1].text \o sql_text(Tail(stmt))

\* re.finditer(pattern, string): the matched texts, in order
RECURSIVE finditer(_, _)
finditer(pattern, stmt) ==
    IF Len(stmt) = 0 THEN <<>>
    ELSE IF stmt[1].pattern = pattern
    THEN <<stmt[1].text>> \o finditer(pattern, Tail(stmt))
    ELSE finditer(pattern, Tail(stmt))

\* match_strings_list: match.group().upper() of every match, pattern by pattern
RECURSIVE match_strings_list(_, _)
match_strings_list(stmt, pattern_dict) ==
    IF Len(pattern_dict) = 0 THEN <<>>
    ELSE LET found == finditer(pattern_dict[1].pattern, stmt)
         IN  [i \in 1..Len(found) |-> upper(found[i])]
             \o match_strings_list(stmt, Tail(pattern_dict))

\* match_strings_token_dict: {match.group().upper(): pattern_dict[pattern]}; a
\* later pattern overwrites the entry of an earlier one
RECURSIVE match_strings_token_dict(_, _)
match_strings_token_dict(stmt, pattern_dict) ==
    IF Len(pattern_dict) = 0 THEN EmptyTrie
    ELSE LET last == pattern_dict[Len(pattern_dict)]
             found == finditer(last.pattern, stmt)
             here == [k \in {upper(found[i]) : i \in 1..Len(found)} |-> last.token_type]
         IN  here @@ match_strings_token_dict(stmt, SubSeq(pattern_dict, 1, Len(pattern_dict) - 1))

\* sqlglot.trie.new_trie: every keyword is put into the trie character by
\* character and ends in {0: True}; trie_below is the dict reached by `prefix`
RECURSIVE trie_below(_, _)
trie_below(keys, prefix) ==
    LET longer == {k \in keys : Len(k) > Len(prefix) /\ SubSeq(k, 1, Len(prefix)) = prefix}
        chars == {k[Len(prefix) + 1] : k \in longer}
        ends == IF prefix \in keys THEN {END} ELSE {}
    IN  [c \in chars \cup ends |->
            IF c = END THEN Leaf("True")
            ELSE Dict(trie_below(longer, Append(prefix, c)))]

new_trie(keywords) ==
    trie_below({keywords[i] : i \in 1..Len(keywords)}, Empty)

\* the base tokenizer's keywords (a few of them): the keyword table, and the
\* multi-word ones, which the base trie _KEYWORD_TRIE holds
W_ORDER_BY == <<"O","R","D","E","R"," ","B","Y">>
W_CREATE == <<"C","R","E","A","T","E">>
W_FROM == <<"F","R","O","M">>

BASE_KEYWORDS ==
    (W_ORDER_BY :> "ORDER_BY") @@ (W_CREATE :> "CREATE") @@ (W_FROM :> "FROM")

_KEYWORD_TRIE == new_trie(<<W_ORDER_BY>>)

\* variant of update_keyword_trie that leaves the base trie as it is
update_keyword_trie_base_only(new) == _KEYWORD_TRIE

\* variant of update_keywords that extends the class's original table only
update_keywords_from_base(keywords, new_key_word_dict) ==
    BASE_KEYWORDS @@ new_key_word_dict

\* variant of update_keywords that drops the old table
update_keywords_replace(keywords, new_key_word_dict) == new_key_word_dict

\* update_keywords: new_key_word_dict | cls.KEYWORDS (the right operand wins)
update_keywords(keywords, new_key_word_dict) == keywords @@ new_key_word_dict

\* update_keyword_trie with parent_trie=None: the base trie is the parent
update_keyword_trie(new) == merge_trie(_KEYWORD_TRIE, new)

\* Python's s[start:end] for start >= 0
slice(s, start, end) ==
    LET stop == IF end < 0 THEN (IF Len(s) + end < 0 THEN 0 ELSE Len(s) + end)
                ELSE IF end > Len(s) THEN Len(s) ELSE end
    IN  SubSeq(s, start + 1, stop)

CONTEXT_RADIUS == 50

\* lines 128-132: the text around the offset the scan failed at
error_context(text, size, current) ==
    LET start0 == current - CONTEXT_RADIUS
        end0 == current + CONTEXT_RADIUS
        start == IF start0 > 0 THEN start0 ELSE 0
        end == IF end0 < size THEN end0 ELSE size - 1
    IN  slice(text, start, end)

MaxCalls == 3

(***************************************************************************)
(* Specification Spec: calls of the pure functions.  Init draws one call   *)
(* (the function and its input); the function's action applies it.         *)
(***************************************************************************)
NoCall == [op |-> "none", st |-> "none"]

Called(op, arg) == [op |-> op, st |-> "called", arg |-> arg]

Returned(c, out) == [op |-> c.op, st |-> "returned", arg |-> c.arg, out |-> out]

\* the class as defined (KEYWORD_TRIE is not set before the first call: the
\* empty trie stands for it) and a fresh tokenizer
TokInit ==
    /\ KEYWORDS = BASE_KEYWORDS
    /\ KEYWORD_TRIE = EmptyTrie
    /\ tok = [sql |-> Empty, size |-> 0, current |-> 0, outcome |-> "new",
              context |-> Empty]
    /\ hist = <<>>

Init ==
    /\ TokInit
    /\ \/ \E e \in DeleteNodes, re \in RETURNING_END_Values :
              call = Called("delete_sql", [node |-> e, RETURNING_END |-> re])
       \/ \E args \in TryToNumberArgLists : call = Called("_parse_trytonumber", args)
       \/ \E e \in TryToNumberNodes : call = Called("try_to_number", e)
       \/ \E ps \in JsonParsers, this \in JsonBases, path \in JsonPaths :
              call = Called("_json_column_op", [parser |-> ps, this |-> this, path |-> path])
       \/ \E e \in ColumnDefs : call = Called("_columndef_sql", e)
       \/ \E e \in CreateNodes : call = Called("_format_create_sql", e)
       \/ \E p \in Tries, n \in Tries :
              call = Called("merge_trie", [parent_trie |-> p, new_trie |-> n])
       \/ \E args \in ApproxPercentileArgLists :
              call = Called("_build_approx_percentile", args)

DeleteSql ==
    /\ call.op = "delete_sql" /\ call.st = "called"
    /\ call' = Returned(call, delete_sql(call.arg.node, call.arg.RETURNING_END))
    /\ UNCHANGED <<KEYWORDS, KEYWORD_TRIE, tok, hist>>

ParseTryToNumber ==
    /\ call.op = "_parse_trytonumber" /\ call.st = "called"
    /\ call' = Returned(call, _parse_trytonumber(call.arg))
    /\ UNCHANGED <<KEYWORDS, KEYWORD_TRIE, tok, hist>>

RenderTryToNumber ==
    /\ call.op = "try_to_number" /\ call.st = "called"
    /\ call' = Returned(call, try_to_number(call.arg))
    /\ UNCHANGED <<KEYWORDS, KEYWORD_TRIE, tok, hist>>

BuildApproxPercentile ==
    /\ call.op = "_build_approx_percentile" /\ call.st = "called"
    /\ call' = Returned(call, _build_approx_percentile(call.arg))
    /\ UNCHANGED <<KEYWORDS, KEYWORD_TRIE, tok, hist>>

JsonColumnOp ==
    /\ call.op = "_json_column_op" /\ call.st = "called"
    /\ call' = Returned(call, _json_column_op(call.arg.parser, call.arg.this, call.arg.path))
    /\ UNCHANGED <<KEYWORDS, KEYWORD_TRIE, tok, hist>>

ColumnDefSql ==
    /\ call.op = "_columndef_sql" /\ call.st = "called"
    /\ call' = Returned(call, _columndef_sql(call.arg))
    /\ UNCHANGED <<KEYWORDS, KEYWORD_TRIE, tok, hist>>

FormatCreateSql ==
    /\ call.op = "_format_create_sql" /\ call.st = "called"
    /\ call' = Returned(call, _format_create_sql(call.arg))
    /\ UNCHANGED <<KEYWORDS, KEYWORD_TRIE, tok, hist>>

MergeTrie ==
    /\ call.op = "merge_trie" /\ call.st = "called"
    /\ call' = Returned(call, merge_trie(call.arg.parent_trie, call.arg.new_trie))
    /\ UNCHANGED <<KEYWORDS, KEYWORD_TRIE, tok, hist>>

Next ==
    \/ DeleteSql
    \/ ParseTryToNumber
    \/ RenderTryToNumber
    \/ BuildApproxPercentile
    \/ JsonColumnOp
    \/ ColumnDefSql
    \/ FormatCreateSql
    \/ MergeTrie

Spec == Init /\ [][Next]_vars

(***************************************************************************)
(* Specification SpecTok: a sequence of tokenize calls on one dialect.     *)
(* The base scan (_scan) either succeeds or fails at some offset.          *)
(***************************************************************************)
InitTok ==
    /\ call = NoCall
    /\ TokInit

\* tokenize(sql) whose scan succeeds
TokenizeOk ==
    /\ Len(hist) < MaxCalls
    /\ \E stmt \in Statements :
          LET sql0 == sql_text(stmt)
              ref_dict == match_strings_token_dict(stmt, CUSTOM_TOKEN_MAP)
              custom_trie == new_trie(match_strings_list(stmt, CUSTOM_TOKEN_MAP))
          IN  /\ KEYWORDS' = update_keywords(KEYWORDS, ref_dict)
              /\ KEYWORD_TRIE' = update_keyword_trie(custom_trie)
              /\ tok' = [sql |-> sql0, size |-> Len(sql0), current |-> Len(sql0),
                         outcome |-> "tokens", context |-> Empty]
              /\ hist' = Append(hist, DOMAIN ref_dict)
    /\ UNCHANGED call

\* tokenize(sql) whose scan raises at the offset current
TokenizeError ==
    /\ Len(hist) < MaxCalls
    /\ \E stmt \in Statements :
          LET sql0 == sql_text(stmt)
              ref_dict == match_strings_token_dict(stmt, CUSTOM_TOKEN_MAP)
              custom_trie == new_trie(match_strings_list(stmt, CUSTOM_TOKEN_MAP))
          IN  \E current \in {0, Len(sql0) \div 2, Len(sql0)} :
                /\ KEYWORDS' = update_keywords(KEYWORDS, ref_dict)
                /\ KEYWORD_TRIE' = update_keyword_trie(custom_trie)
                /\ tok' = [sql |-> sql0, size |-> Len(sql0), current |-> current,
                           outcome |-> "ParseError",
                           context |-> error_context(sql0, Len(sql0), current)]
                /\ hist' = Append(hist, DOMAIN ref_dict)
    /\ UNCHANGED call

NextTok ==
    \/ TokenizeOk
    \/ TokenizeError

SpecTok == InitTok /\ [][NextTok]_vars

(***************************************************************************)
(* Specification SpecRace: two tokenize calls, each on its own tokenizer,  *)
(* run interleaved against the class attributes KEYWORDS and KEYWORD_TRIE. *)
(* A call goes through the statements of tokenize in order: lines 109-112  *)
(* (reset, self.sql, ref_dict), line 113 (update_keywords), lines 115-120  *)
(* (custom_trie, update_keyword_trie), lines 124-126 (the scan starts).    *)
(* tok holds each call's locals (and the trie and its writers as they are  *)
(* when the scan starts), hist the calls that wrote KEYWORD_TRIE.          *)
(***************************************************************************)
Threads == {1, 2}

InitRace ==
    /\ call = NoCall
    /\ KEYWORDS = BASE_KEYWORDS
    /\ KEYWORD_TRIE = EmptyTrie
    /\ tok = [t \in Threads |->
                [pc |-> "start", stmt |-> <<>>, ref_dict |-> EmptyTrie,
                 scan_trie |-> EmptyTrie, scan_writers |-> <<>>]]
    /\ hist = <<>>

\* lines 109-112: self.reset(); self.sql = sql; ref_dict = match_strings_token_dict
Discover(t) ==
    /\ tok[t].pc = "start"
    /\ \E stmt \in Statements :
          tok' = [tok EXCEPT ![t].pc = "ref_dict", ![t].stmt = stmt,
                             ![t].ref_dict = match_strings_token_dict(stmt, CUSTOM_TOKEN_MAP)]
    /\ UNCHANGED <<call, KEYWORDS, KEYWORD_TRIE, hist>>

\* line 113: self.update_keywords(ref_dict)
UpdateKeywords(t) ==
    /\ tok[t].pc = "ref_dict"
    /\ KEYWORDS' = update_keywords(KEYWORDS, tok[t].ref_dict)
    /\ tok' = [tok EXCEPT ![t].pc = "keywords"]
    /\ UNCHANGED <<call, KEYWORD_TRIE, hist>>

\* lines 115-120: custom_trie = new_trie(...); self.update_keyword_trie(custom_trie)
UpdateKeywordTrie(t) ==
    /\ tok[t].pc = "keywords"
    /\ KEYWORD_TRIE' =
          update_keyword_trie(new_trie(match_strings_list(tok[t].stmt, CUSTOM_TOKEN_MAP)))
    /\ tok' = [tok EXCEPT ![t].pc = "trie"]
    /\ hist' = Append(hist, t)
    /\ UNCHANGED <<call, KEYWORDS>>

\* lines 124-126: self.size = len(sql); self._scan() starts on the current trie
StartScan(t) ==
    /\ tok[t].pc = "trie"
    /\ tok' = [tok EXCEPT ![t].pc = "scan", ![t].scan_trie = KEYWORD_TRIE,
                           ![t].scan_writers = hist]
    /\ UNCHANGED <<call, KEYWORDS, KEYWORD_TRIE, hist>>

NextRace ==
    \E t \in Threads :
        \/ Discover(t)
        \/ UpdateKeywords(t)
        \/ UpdateKeywordTrie(t)
        \/ StartScan(t)

SpecRace == InitRace /\ [][NextRace]_vars

(***************************************************************************)
(* Specification SpecAlias: the while loop of _get_table_alias, one        *)
(* iteration per step, on the copied parser.  call holds the locals of the *)
(* method: the cursor idx of self_copy, indx, run, found_from and, once it *)
(* has returned, the result.                                               *)
(***************************************************************************)
MaxTokens == 3

MaxIter == 6

AliasTokens == {TK_FROM, TK_t, TK_DOT}

\* a parser as reset() leaves it (no tokens) or on a token list, at any cursor
AliasParsers ==
    {Parser(tokens, index) :
        tokens \in UNION {[1..n -> AliasTokens] : n \in 0..MaxTokens},
        index \in 0..MaxTokens}

\* lines 209-213: the state before the first test of the loop condition
InitAlias ==
    /\ TokInit
    /\ \E parser \in AliasParsers :
          /\ parser.index <= Len(parser.tokens)
          /\ call = [op |-> "_get_table_alias", st |-> "loop", arg |-> parser,
                     idx |-> parser.index, indx |-> 0, run |-> TRUE,
                     found_from |-> _match(parser.tokens, parser.index, "FROM"),
                     out |-> None]

\* lines 214-226: one iteration of the loop body
AliasLoop ==
    /\ call.op = "_get_table_alias" /\ call.st = "loop"
    /\ call.run \/ call.found_from
    /\ call.indx < MaxIter
    /\ LET idx1 == call.idx + 1
           indx1 == call.indx + 1
           found1 == _match(call.arg.tokens, idx1, "FROM")
           run1 == IF indx1 = Len(call.arg.tokens) THEN FALSE ELSE call.run
       IN  call' = [call EXCEPT !.idx = idx1, !.indx = indx1, !.run = run1,
                                !.found_from = found1,
                                !.st = IF found1 THEN "returned" ELSE "loop",
                                !.out = IF found1
                                        THEN alias_after_from(call.arg.tokens, idx1)
                                        ELSE None]
    /\ UNCHANGED <<KEYWORDS, KEYWORD_TRIE, tok, hist>>

\* lines 214 and 227: the loop condition fails, table_alias (None) is returned
AliasReturn ==
    /\ call.op = "_get_table_alias" /\ call.st = "loop"
    /\ ~(call.run \/ call.found_from)
    /\ call' = [call EXCEPT !.st = "returned"]
    /\ UNCHANGED <<KEYWORDS, KEYWORD_TRIE, tok, hist>>

NextAlias ==
    \/ AliasLoop
    \/ AliasReturn

SpecAlias == InitAlias /\ [][NextAlias]_vars

(***************************************************************************)
(* Claims                                                                  *)
(***************************************************************************)
IsReturned(op) == call.op = op /\ call.st = "returned"

\* the clause texts of a Delete node that reach the output when USING is empty
DeleteClauses(e) == {e.this, e.where, e.returning, e.limit, e.tables, e.with}

\* C1 (as stated): a DELETE with a non-empty USING clause renders to text holding
\* MERGE and WHEN MATCHED THEN DELETE; one with an empty USING clause renders to
\* text holding DELETE and not holding MERGE, whatever WHERE, RETURNING and LIMIT are.
C1_DeleteDichotomy ==
    IsReturned("delete_sql") =>
        LET e == call.arg.node
            out == call.out
        IN  /\ e.using # Empty =>
                 Contains(out, S_MERGE) /\ Contains(out, S_WHEN_MATCHED_THEN_DELETE)
            /\ e.using = Empty =>
                 Contains(out, S_DELETE) /\ ~Contains(out, S_MERGE)

\* C1 (amended): with a non-empty USING clause the output holds MERGE and WHEN
\* MATCHED THEN DELETE; with an empty USING clause the statement text (after any
\* CTE prefix) begins with DELETE, does not end in the MERGE tail, and holds
\* MERGE only if one of the node's own rendered clauses holds it.
C1_DeleteDichotomyAmended ==
    IsReturned("delete_sql") =>
        LET e == call.arg.node
            out == call.out
            stmt == IF e.with # Empty
                    THEN SubSeq(out, Len(e.with) + 2, Len(out)) ELSE out
        IN  /\ e.using # Empty =>
                 /\ Contains(out, S_MERGE) /\ Contains(out, S_WHEN_MATCHED_THEN_DELETE)
                 /\ StartsWith(stmt, S_MERGE) /\ EndsWith(out, S_WHEN_MATCHED)
            /\ e.using = Empty =>
                 /\ Contains(out, S_DELETE) /\ StartsWith(stmt, S_DELETE)
                 /\ ~EndsWith(out, S_WHEN_MATCHED)
                 /\ Contains(out, S_MERGE) <=> \E c \in DeleteClauses(e) : Contains(c, S_MERGE)

\* C1 witness: a multi-table DELETE with WHERE, RETURNING and LIMIT was rewritten.
C1_Witness ==
    /\ IsReturned("delete_sql")
    /\ call.arg.node.using # Empty /\ call.arg.node.where # Empty
    /\ call.arg.node.returning # Empty /\ call.arg.node.limit # Empty
    /\ StartsWith(call.out, S_MERGE)

\* C2 (as stated): _parse_trytonumber raises a parse error for 1 or 3 arguments
\* and builds a TryToNumber node only from exactly 2 or exactly 4 arguments; a
\* list of any other length (0, 5 or more) yields no node.
C2_TryToNumberArity ==
    IsReturned("_parse_trytonumber") =>
        /\ Len(call.arg) \in {1, 3} => call.out.type = "ParseError"
        /\ call.out.type = "TryToNumber" => Len(call.arg) \in {2, 4}

\* C3: a TryToNumber node renders as
\* CAST(TRY_TO_NUMBER(<value>[, <format>]) AS DECIMAL(<p>, <s>)), p the node's
\* precision or 38, s the node's scale or 0, the format present exactly when
\* the node has one.
C3_TryToNumberRender ==
    IsReturned("try_to_number") =>
        LET e == call.arg
            p == IF e.precision.type # "None" THEN sql(e.precision) ELSE <<"3","8">>
            s == IF e.scale.type # "None" THEN sql(e.scale) ELSE <<"0">>
            inner == IF e.expression.type # "None"
                     THEN sql(e.this) \o <<",", " ">> \o sql(e.expression)
                     ELSE sql(e.this)
        IN  call.out = S_CAST_ \o S_TRY_TO_NUMBER \o <<"(">> \o inner \o <<")">>
                       \o S_AS_DECIMAL_ \o p \o <<",", " ">> \o s \o <<")", ")">>

\* C3 witness: a node with a format and without precision and scale was rendered
\* with the defaults.
C3_Witness ==
    /\ IsReturned("try_to_number")
    /\ call.arg.expression.type # "None"
    /\ call.arg.precision.type = "None" /\ call.arg.scale.type = "None"
    /\ EndsWith(call.out, <<"(","3","8",","," ","0",")",")">>)

\* the accuracy argument of a 3- or 4-argument approximate-percentile call
AccuracyArg(args) == args[Len(args)]

\* the 4-argument call with the same value, quantile and accuracy as a 3-argument one
WithWeight(args) == <<args[1], C_w, args[2], args[3]>>

\* C4 (as stated): for a 3- or 4-argument call the accuracy literal of the
\* ApproxQuantile node is 100 for the accuracy argument 0.01 and 20 for 0.05,
\* and the 4-argument form gives the same literal as the 3-argument form.
C4_ApproxAccuracy ==
    IsReturned("_build_approx_percentile") /\ Len(call.arg) \in {3, 4} =>
        /\ AccuracyArg(call.arg) = A_001 =>
              call.out.type = "ApproxQuantile" /\ call.out.accuracy.this = <<"1","0","0">>
        /\ AccuracyArg(call.arg) = A_005 =>
              call.out.type = "ApproxQuantile" /\ call.out.accuracy.this = <<"2","0">>
        /\ Len(call.arg) = 3 /\ call.out.type = "ApproxQuantile" =>
              _build_approx_percentile(WithWeight(call.arg)).accuracy = call.out.accuracy

\* C5 (as stated): a 3- or 4-argument call whose accuracy argument is not
\* numeric ends in a parse error naming that argument, never in another error
\* and never in a node.
C5_ApproxNonNumeric ==
    IsReturned("_build_approx_percentile") /\ Len(call.arg) \in {3, 4}
        /\ ~float(AccuracyArg(call.arg).this).ok =>
            call.out = ParseError(AccuracyArg(call.arg))

\* the node the decision table of the colon path operator prescribes for a base,
\* a path and a lookahead result (Str(alias) or None)
DecisionTable(this, path, table_alias) ==
    LET path_node == this.type \in {"exp.Bracket", "local.Bracket"}
        named_value == upper(name(this)) = S_VALUE
        inner_is_alias == /\ has_table(this.this) /\ table_alias.type = "str"
                          /\ upper(this.this.table) = upper(table_alias.text)
    IN  IF ~path_node /\ named_value /\ Str(this.table) # table_alias
        THEN LocalBracket(Str(this.table), path)
        ELSE IF ~path_node /\ named_value
        THEN LocalBracket(this, path)
        ELSE IF \/ path.type = "Literal" /\ upper(name(path)) = S_VALUE
                \/ path_node /\ (named_value \/ inner_is_alias)
        THEN LocalBracket(this, path)
        ELSE ExpBracket(this, path)

\* C6 (as stated): for every base, path and lookahead result (an alias, or none
\* when no FROM follows) _json_column_op returns exactly the node of the
\* decision table; every input yields a node.
C6_JsonColumnOpTable ==
    IsReturned("_json_column_op")
        /\ _get_table_alias(call.arg.parser).type \in {"str", "None"} =>
            call.out = DecisionTable(call.arg.this, call.arg.path,
                                     _get_table_alias(call.arg.parser))

\* C7 (as stated): rendering a column definition succeeds exactly when the
\* leading alphabetic run of its rendered type is one of the 17 allowed names;
\* for every other column definition, one with an empty type or a type that
\* does not begin with a letter included, it raises an unsupported-construct
\* error naming the type.
C7_ColumnDefAllowList ==
    IsReturned("_columndef_sql") =>
        IF leading_alpha(call.arg.kind) \in VALID_DATABRICKS_TYPES
        THEN call.out.type = "text"
        ELSE call.out.type = "UnsupportedError"

\* the eight CREATE modifiers
Modifiers ==
    {"temporary", "transient", "external", "replace", "exists", "unique",
     "materialized", "properties"}

\* C8: after the stripping none of the eight modifiers is set on the node handed
\* to the base renderer; a node with none of them set is handed over with every
\* argument as it was; stripping the stripped node changes nothing.
C8_CreateStripIdempotent ==
    IsReturned("_format_create_sql") =>
        /\ \A m \in Modifiers : call.out[m] # "truthy"
        /\ (\A m \in Modifiers : call.arg[m] # "truthy") => call.out = call.arg
        /\ \A k \in DOMAIN call.arg :
              call.arg[k] # "truthy" \/ k \notin Modifiers => call.out[k] = call.arg[k]
        /\ strip_args(call.out, args_to_delete) = call.out

\* C8 witness: an already-minimal CREATE that still carries falsy modifier keys
\* went through the stripping.
C8_Witness ==
    /\ IsReturned("_format_create_sql")
    /\ \A m \in Modifiers : call.arg[m] # "truthy"
    /\ call.arg.exists = "falsy" /\ call.arg.properties = "absent"
    /\ call.out = call.arg

\* the deep union of two tries: a key of one trie keeps its value, two dicts
\* are united recursively, a dict wins over a terminal, and of two terminals
\* the first trie's is kept when first_wins and the second trie's otherwise
RECURSIVE DeepUnion(_, _, _)
DeepUnion(first, second, first_wins) ==
    [key \in DOMAIN first \cup DOMAIN second |->
        CASE key \notin DOMAIN second -> first[key]
          [] key \notin DOMAIN first -> second[key]
          [] first[key].dict /\ second[key].dict ->
                Dict(DeepUnion(first[key].kids, second[key].kids, first_wins))
          [] first[key].dict /\ ~second[key].dict -> first[key]
          [] ~first[key].dict /\ second[key].dict -> second[key]
          [] OTHER -> IF first_wins THEN first[key] ELSE second[key]]

\* C9 (as stated): merge_trie returns the deep union of the two tries in which,
\* of two terminal values on one key, parent_trie's is kept.
C9_MergeTrieParentTerminal ==
    IsReturned("merge_trie") =>
        call.out = DeepUnion(call.arg.parent_trie, call.arg.new_trie, TRUE)

\* C9 (amended): merge_trie returns the deep union of the two tries in which,
\* of two terminal values on one key, new_trie's (the second trie's) is kept.
C9_MergeTrieNewTerminal ==
    IsReturned("merge_trie") =>
        call.out = DeepUnion(call.arg.parent_trie, call.arg.new_trie, FALSE)

\* C9 witness: a merge with a terminal collision under a key both tries map to
\* a dict, and a dict-against-terminal collision beside it.
C9_Witness ==
    /\ IsReturned("merge_trie")
    /\ "a" \in DOMAIN call.arg.parent_trie /\ "a" \in DOMAIN call.arg.new_trie
    /\ call.arg.parent_trie["a"] = Dict([k \in {"a"} |-> Leaf("T1")])
    /\ call.arg.new_trie["a"] = Dict([k \in {"a"} |-> Leaf("T2")])
    /\ "b" \in DOMAIN call.arg.parent_trie /\ "b" \in DOMAIN call.arg.new_trie
    /\ call.arg.parent_trie["b"].dict /\ ~call.arg.new_trie["b"].dict
    /\ call.out["a"].kids["a"] = Leaf("T2")
    /\ call.out["b"] = call.arg.parent_trie["b"]

\* whether a trie holds a keyword: the path of its characters ends in the key 0
RECURSIVE in_trie(_, _)
in_trie(trie, key) ==
    IF Len(key) = 0 THEN END \in DOMAIN trie
    ELSE /\ key[1] \in DOMAIN trie
         /\ trie[key[1]].dict
         /\ in_trie(trie[key[1]].kids, Tail(key))

\* the set of keywords a tokenize call discovers in a statement
discovered(stmt) == DOMAIN match_strings_token_dict(stmt, CUSTOM_TOKEN_MAP)

\* the keywords the base trie holds
BaseTrieKeywords == {W_ORDER_BY}

\* the keywords any statement can add
DialectKeywords == UNION {discovered(stmt) : stmt \in Statements}

\* C10 (as stated): after two or more tokenize calls with no reset in between,
\* the keywords discovered by every earlier call are still in the keyword table
\* KEYWORDS and in the merged keyword trie KEYWORD_TRIE.
C10_KeywordsPersistInBoth ==
    \A i \in 1..Len(hist) : \A kw \in hist[i] :
        kw \in DOMAIN KEYWORDS /\ in_trie(KEYWORD_TRIE, kw)

\* C10 (amended): the keywords discovered by every earlier call are still in
\* KEYWORDS; KEYWORD_TRIE is rebuilt by every call from the base trie and holds,
\* of the dialect keywords, exactly those of the latest call, so an earlier
\* statement's keyword is in it only if the latest statement holds it too.
C10_KeywordsPersistInTable ==
    /\ \A i \in 1..Len(hist) : \A kw \in hist[i] : kw \in DOMAIN KEYWORDS
    /\ Len(hist) > 0 =>
          /\ \A kw \in DialectKeywords :
                in_trie(KEYWORD_TRIE, kw) <=> kw \in hist[Len(hist)]
          /\ \A kw \in BaseTrieKeywords : in_trie(KEYWORD_TRIE, kw)

\* C10 witness: statement A added keywords, statement B, which holds none of
\* them, was tokenized after it, and A's keywords are in the table only.
C10_Witness ==
    /\ Len(hist) = 2
    /\ hist[1] # {} /\ hist[2] # {} /\ hist[1] \cap hist[2] = {}
    /\ \A kw \in hist[1] : kw \in DOMAIN KEYWORDS /\ ~in_trie(KEYWORD_TRIE, kw)

\* C11: when the scan fails at offset c in a statement of length n, the context
\* of the parse error is the statement text from max(0, c-50) up to (not
\* including) min(n, c+50).
C11_ContextWindow ==
    tok.outcome = "ParseError" =>
        LET c == tok.current
            n == tok.size
            from == IF c - 50 > 0 THEN c - 50 ELSE 0
            to == IF c + 50 < n THEN c + 50 ELSE n
        IN  tok.context = SubSeq(tok.sql, from + 1, to)

\* the keywords of its own statement that a call's scan does not find in the
\* keyword trie it starts on
MissedAtScan(t) ==
    {kw \in DOMAIN tok[t].ref_dict : ~in_trie(tok[t].scan_trie, kw)}

\* C12: the trie update of tokenize races.  A call starts its scan on a keyword
\* trie that lacks keywords of its own statement only when the other call
\* replaced the trie after this call's own update, and that interleaving is
\* reachable (C12_Witness).
C12_ScanMissesOnlyAfterOverwrite ==
    \A t \in Threads :
        (tok[t].pc = "scan" /\ MissedAtScan(t) # {}) =>
            LET writers == tok[t].scan_writers
            IN  /\ \E i \in 1..Len(writers) : writers[i] = t
                /\ writers[Len(writers)] # t

\* C12 witness: a call has started its scan while the shared trie lacks a
\* keyword discovered in its own statement.
C12_Witness ==
    \E t \in Threads : tok[t].pc = "scan" /\ MissedAtScan(t) # {}

\* the condition of a rendered WHERE clause: the text after " WHERE"
WhereCondition(where) == SubSeq(where, Len(S_WHERE) + 2, Len(where))

\* C13: in the DELETE -> MERGE rewrite only the keyword introducing the WHERE
\* clause becomes ON; the condition after it is rendered unchanged, also when
\* the condition itself holds the text WHERE.
C13_OnlyLeadingWhereReplaced ==
    IsReturned("delete_sql") =>
        LET e == call.arg.node
        IN  (e.using # Empty /\ e.where # Empty) =>
                Contains(call.out,
                         e.using \o <<" ">> \o S_ON \o WhereCondition(e.where))

\* C14: across any sequence of tokenize calls, failed scans included, every
\* keyword that is in KEYWORDS before a call is still in it after the call with
\* the same token kind.
C14_KeywordsOnlyGrow ==
    [][\A kw \in DOMAIN KEYWORDS :
          kw \in DOMAIN KEYWORDS' /\ KEYWORDS'[kw] = KEYWORDS[kw]]_vars

\* C14 witness: a call whose scan failed discovered again a keyword that an
\* earlier call had registered, other keywords were registered in between, and
\* all of them are in the table.
C14_Witness ==
    /\ Len(hist) = 3
    /\ tok.outcome = "ParseError"
    /\ hist[1] \cap hist[3] # {}
    /\ hist[2] \ hist[1] # {}
    /\ \A i \in 1..3 : hist[i] \subseteq DOMAIN KEYWORDS
    /\ \A kw \in DOMAIN BASE_KEYWORDS : KEYWORDS[kw] = BASE_KEYWORDS[kw]

\* the cursor positions after the starting position that hold a FROM keyword
FromsAhead(parser) ==
    {i \in (parser.index + 1)..(Len(parser.tokens) - 1) : _match(parser.tokens, i, "FROM")}

====
